---- MODULE Spec2Model ----
(***************************************************************************)
(* A model of SlackGhost (src/src/SlackGhost.ts): the per-ghost users.info *)
(* cache with in-flight coalescing and timer eviction, and the two profile *)
(* synchronisation paths (display name, avatar) that update() runs         *)
(* concurrently on Node's single-threaded event loop.                      *)
(*                                                                         *)
(* One action is one run-to-completion piece of code: from a call or the   *)
(* resumption of an await on I/O up to the next await on I/O.  Awaits on   *)
(* values that are already available (the return of an async function to   *)
(* its async caller) are microtask hops that no I/O callback can interleave *)
(* with, so they stay inside the action.                                   *)
(***************************************************************************)
EXTENDS Integers, Sequences, FiniteSets, TLC

\* ------------------------------------------------------------------ bounds
\* Number of update() invocations (each runs two coroutines).
NumTasks == 2
Tasks == 1..NumTasks
\* Number of sendMessage invocations.
NumSends == 2
Sends == 1..NumSends

\* ---------------------------------------------------------------- constants
\* const USER_CACHE_TIMEOUT = 10 * 60 * 1000;  (milliseconds)
USER_CACHE_TIMEOUT == 10 * 60 * 1000
\* The clock advances in steps of half the cache timeout, in milliseconds.
TickMs == USER_CACHE_TIMEOUT \div 2

\* ------------------------------------------------------------------- values
\* JavaScript undefined for an optional string.
Undefined == "undefined"
\* A URL is a sequence of characters; the empty string is falsy like undefined.
NoUrl == <<>>
UrlA == <<"h", "/", "a">>
UrlB == <<"h", "/", "b">>
UrlNoFile == <<"h", "/">>

Subjects == {"U1"}
Tokens == {"xoxb"}
InlineNames == {Undefined, "Alice"}
\* Entries of the user store a ghost is built from: { id, display_name,
\* avatar_url }.
Entries ==
    {[id |-> id, display_name |-> Undefined, avatar_url |-> NoUrl] : id \in Subjects}
    \cup {[id |-> id, display_name |-> "Bob", avatar_url |-> UrlB] : id \in Subjects}

\* ISlackUser.profile
Profile(dn, rn, orig, i1024, i512, i192, i72, i48) ==
    [display_name |-> dn, real_name |-> rn, image_original |-> orig,
     image_1024 |-> i1024, image_512 |-> i512, image_192 |-> i192,
     image_72 |-> i72, image_48 |-> i48]

\* ISlackUser: an optional value is a sequence of length 0 or 1.
User(profile) == [profile |-> profile]

ProfAlice == Profile("Alice", "Alice R", NoUrl, NoUrl, UrlA, UrlB, NoUrl, NoUrl)
ProfBob == Profile(Undefined, "Bob", UrlNoFile, UrlB, NoUrl, NoUrl, NoUrl, NoUrl)

\* Bodies the users.info endpoint may answer with: {user?: ISlackUser}.
RespNoUser == [user |-> <<>>]
RespNoProfile == [user |-> <<User(<<>>)>>]
RespAlice == [user |-> <<User(<<ProfAlice>>)>>]
RespBob == [user |-> <<User(<<ProfBob>>)>>]
Responses == {RespNoUser, RespNoProfile, RespAlice, RespBob}

\* ------------------------------------------------------------------- state
VARIABLES
    userId,           \* SlackGhost.userId
    displayName,      \* SlackGhost.displayName
    avatarUrl,        \* SlackGhost.avatarUrl
    userInfoCache,    \* SlackGhost.userInfoCache: <<>> or <<user>>
    userInfoLoading,  \* SlackGhost.userInfoLoading: 0 or the index of a request
    remoteCalls,      \* main's counter remote_call:users.info
    requests,         \* the users.info request promises ever created
    timers,           \* pending setTimeout callbacks: milliseconds left to run
    cacheAge,         \* milliseconds since userInfoCache was last assigned a user
    puppetName,       \* the display name the puppet (intent) holds
    puppetAvatar,     \* the avatar content URI the puppet holds
    upd,              \* per task: the update(message, room) call
    dn,               \* per task: the updateDisplayname coroutine
    av,               \* per task: the updateAvatar coroutine
    la,               \* a lookupAvatarUrl call taken on its own
    sentMessages,     \* main's counter sent_messages {side: "matrix"}
    eventStore,       \* main.eventStore: the StoreEvents upserted
    timeline,         \* the events the homeserver holds, by event id
    snd,              \* per send: the sendMessage coroutine
    rt                \* a toEntry call and a fromEntry call of its result

\* The state of the ghost, of its profile synchronisation and of the
\* collaborators it calls.
syncVars == <<userId, displayName, avatarUrl, userInfoCache, userInfoLoading,
              remoteCalls, requests, timers, cacheAge, puppetName,
              puppetAvatar, upd, dn, av>>

\* The state of the calls that are taken on their own.
otherVars == <<la, sentMessages, eventStore, timeline, snd, rt>>

vars == <<syncVars, otherVars>>

\* ----------------------------------------------------------- pure functions
\* JavaScript truthiness of an optional string.
Truthy(s) == s # Undefined /\ s # ""

\* The real name preferred to the display name.
getDisplaynameOfRealFirst(user) ==
    IF user # <<>> /\ user[1].profile # <<>>
    THEN LET profile == user[1].profile[1]
         IN  IF Truthy(profile.real_name) THEN profile.real_name
             ELSE IF Truthy(profile.display_name) THEN profile.display_name
             ELSE Undefined
    ELSE Undefined

\* getDisplayname, lines 69-71: display_name || real_name of a user with a
\* profile, otherwise undefined.
getDisplaynameOf(user) ==
    IF user # <<>> /\ user[1].profile # <<>>
    THEN LET profile == user[1].profile[1]
         IN  IF Truthy(profile.display_name) THEN profile.display_name
             ELSE IF Truthy(profile.real_name) THEN profile.real_name
             ELSE Undefined
    ELSE Undefined

\* The chain of || in lookupAvatarUrl: the first truthy of the sequence.
RECURSIVE FirstTruthy(_)
FirstTruthy(urls) ==
    IF urls = <<>> THEN NoUrl
    ELSE IF Head(urls) # NoUrl THEN Head(urls)
    ELSE FirstTruthy(Tail(urls))

\* The candidates tried from the smallest image up.
lookupAvatarUrlOfSmallestFirst(user) ==
    IF user = <<>> \/ user[1].profile = <<>> THEN NoUrl
    ELSE LET profile == user[1].profile[1]
         IN  FirstTruthy(<<profile.image_48, profile.image_72,
                           profile.image_192, profile.image_512,
                           profile.image_1024, profile.image_original>>)

\* lookupAvatarUrl, lines 97-104.
lookupAvatarUrlOf(user) ==
    IF user = <<>> \/ user[1].profile = <<>> THEN NoUrl
    ELSE LET profile == user[1].profile[1]
         IN  FirstTruthy(<<profile.image_original, profile.image_1024,
                           profile.image_512, profile.image_192,
                           profile.image_72, profile.image_48>>)

\* avatarUrl.match(/\/([^\/]+)$/): group 1 is the non-empty run of non-slash
\* characters that ends the string and follows a slash; <<>> when no match.
ShortName(url) ==
    LET slashes == {i \in 1..Len(url) : url[i] = "/"}
    IN  IF slashes = {} THEN <<>>
        ELSE LET last == CHOOSE i \in slashes : \A j \in slashes : j <= i
             IN  SubSeq(url, last + 1, Len(url))

\* uploadContent, lines 220-228: the content URI the media store answers for
\* an uploaded file; it is determined by the file.
ContentUriOf(title) == <<"mxc">> \o title

\* The constructor given the id in the place of the display name.
fromEntryIdAsName(entry) ==
    [userId |-> entry.id, displayName |-> entry.id,
     avatarUrl |-> entry.avatar_url, userInfoCache |-> <<>>,
     userInfoLoading |-> 0]

\* fromEntry, lines 37-45, and the constructor, lines 29-35: the fields of the
\* ghost built from an entry of the store.
fromEntry(entry) ==
    [userId |-> entry.id, displayName |-> entry.display_name,
     avatarUrl |-> entry.avatar_url, userInfoCache |-> <<>>,
     userInfoLoading |-> 0]

\* toEntry, lines 47-53.
toEntry(id, name, avatar) ==
    [id |-> id, display_name |-> name, avatar_url |-> avatar]

\* ------------------------------------------------------ the users.info cache
\* The part of the ghost and of its environment that lookupUserInfo touches.
CacheState == [cache |-> userInfoCache, loading |-> userInfoLoading,
               calls |-> remoteCalls, requests |-> requests, timers |-> timers,
               age |-> cacheAge]

\* A users.info request promise: rp({uri, qs: {token, user}, json: true}).
NewRequest(slackUserId, slackAccessToken) ==
    [st |-> "pending", user |-> slackUserId, token |-> slackAccessToken,
     resp |-> RespNoUser]

\* Line 108: the cached value is used when it is set.
CacheHit(g) == g.cache # <<>>

\* A lookup that never joins the request in flight.
JoinsLoadingNever(g) == FALSE

\* Line 112: an in-flight handle is joined when it is set.
JoinsLoading(g) == g.loading # 0

\* lookupUserInfo up to its first await (lines 107-130): the way the lookup
\* is served, the request awaited, the user returned at once on a cache hit,
\* and the cache state left behind.
lookupUserInfo(g, slackUserId, slackAccessToken) ==
    IF CacheHit(g)
    THEN [how |-> "hit", p |-> 0, user |-> g.cache, g |-> g]
    ELSE IF JoinsLoading(g)
    THEN [how |-> "join", p |-> g.loading, user |-> <<>>, g |-> g]
    ELSE [how |-> "fetch", p |-> Len(g.requests) + 1, user |-> <<>>,
          g |-> [g EXCEPT !.calls = @ + 1,
                          !.requests = Append(@, NewRequest(slackUserId,
                                                            slackAccessToken)),
                          !.loading = Len(g.requests) + 1]]

\* Line 131: the fetcher's test of the response.
Malformed(response) ==
    response.user = <<>> \/ response.user[1].profile = <<>>

\* An eviction timer of half the cache timeout.
TimerDelayHalved == USER_CACHE_TIMEOUT \div 2

\* Line 136: the delay given to setTimeout.
TimerDelay == USER_CACHE_TIMEOUT

\* Lines 131-138: the fetcher after its await resolved.
fetcherResolved(g, response) ==
    IF Malformed(response)
    THEN [user |-> <<>>, g |-> g]
    ELSE [user |-> response.user,
          g |-> [g EXCEPT !.cache = response.user,
                          !.age = 0,
                          !.timers = Append(@, TimerDelay),
                          !.loading = 0]]

\* Lines 114-117: a joiner after its await resolved.
joinerResolved(g, response) ==
    [user |-> response.user, g |-> g]

\* The continuation of lookupUserInfo when request p has settled: thrown
\* tells whether the await threw (transport failure).
lookupUserInfoResume(g, how, p) ==
    LET r == g.requests[p]
    IN  IF r.st = "rejected"
        THEN [thrown |-> TRUE, user |-> <<>>, g |-> g]
        ELSE LET c == IF how = "fetch" THEN fetcherResolved(g, r.resp)
                      ELSE joinerResolved(g, r.resp)
             IN  [thrown |-> FALSE, user |-> c.user, g |-> c.g]

\* ------------------------------------------------------------- coroutines
Messages == [user_id : Subjects, user_name : InlineNames]
Rooms == [AccessToken : Tokens \cup {Undefined}]

\* A coroutine that has not been called.  pc is the await it is suspended
\* at; how, got and user record how its lookup was served and what it
\* returned; calls, wrote and put record what the coroutine did.
IdleDn == [pc |-> "idle", how |-> "none", p |-> 0, got |-> "none",
           user |-> <<>>, name |-> Undefined, applied |-> FALSE,
           calls |-> <<>>, wrote |-> FALSE, put |-> <<>>,
           result |-> "pending"]
IdleAv == [pc |-> "idle", how |-> "none", p |-> 0, got |-> "none",
           user |-> <<>>, url |-> NoUrl, title |-> <<>>, uri |-> <<>>,
           applied |-> FALSE, calls |-> <<>>, wrote |-> FALSE, put |-> <<>>,
           result |-> "pending"]
\* An update() call that has not been made.  prior records the calls that had
\* completed when this one was made.
IdleUpd == [st |-> "idle", message |-> [user_id |-> "U1", user_name |-> Undefined],
            room |-> [AccessToken |-> Undefined], prior |-> {}]

\* An async function returns: its promise is fulfilled.
Return(co) == [co EXCEPT !.pc = "done", !.result = "fulfilled"]
\* An async function throws: its promise is rejected.
Throw(co) == [co EXCEPT !.pc = "done", !.result = "rejected"]

\* A test that only finds an absent name, and compares with nothing.
SameDisplayNameAbsentOnly(name, stored) == ~Truthy(name)

\* Line 86: nothing to do for this display name.
SameDisplayName(name, stored) == ~Truthy(name) \/ stored = name

\* Lines 86-90: with the name resolved, return or call setDisplayName.
decideDisplayname(co, name, stored) ==
    IF SameDisplayName(name, stored)
    THEN Return([co EXCEPT !.name = name])
    ELSE [co EXCEPT !.pc = "setDisplayName", !.name = name,
                    !.calls = Append(@, <<"setDisplayName", name>>)]

\* Line 148: nothing to do for this avatar.
SameAvatar(url, stored) == url = NoUrl \/ stored = url

\* Lines 148-163: with the avatar URL resolved, return or start the media
\* fetch.
decideAvatar(co, url, stored) ==
    IF SameAvatar(url, stored) THEN Return([co EXCEPT !.url = url])
    ELSE IF ShortName(url) = <<>> THEN Return([co EXCEPT !.url = url])
    ELSE [co EXCEPT !.pc = "media", !.url = url, !.title = ShortName(url),
                    !.calls = Append(@, <<"rp", url>>)]

\* A test of the credential that never finds it missing.
NoTokenIgnored(room) == FALSE

\* Line 76 and line 143: the room exposes no credential.
NoToken(room) == ~Truthy(room.AccessToken)

\* updateDisplayname up to its first await on I/O (lines 74-90).
updateDisplayname(g, message, room, stored) ==
    IF NoToken(room) THEN [co |-> Return(IdleDn), g |-> g]
    ELSE IF Truthy(message.user_name)
    THEN [co |-> decideDisplayname([IdleDn EXCEPT !.how = "inline"],
                                   message.user_name, stored),
          g |-> g]
    ELSE LET l == lookupUserInfo(g, message.user_id, room.AccessToken)
             co == [IdleDn EXCEPT !.how = l.how, !.p = l.p]
         IN  IF l.how = "hit"
             THEN [co |-> decideDisplayname(
                              [co EXCEPT !.got = "value", !.user = l.user],
                              getDisplaynameOf(l.user), stored),
                   g |-> l.g]
             ELSE [co |-> [co EXCEPT !.pc = "users.info"], g |-> l.g]

\* updateAvatar up to its first await on I/O (lines 141-163).
updateAvatar(g, message, room, stored) ==
    IF NoToken(room) THEN [co |-> Return(IdleAv), g |-> g]
    ELSE LET l == lookupUserInfo(g, message.user_id, room.AccessToken)
             co == [IdleAv EXCEPT !.how = l.how, !.p = l.p]
         IN  IF l.how = "hit"
             THEN [co |-> decideAvatar(
                              [co EXCEPT !.got = "value", !.user = l.user],
                              lookupAvatarUrlOf(l.user), stored),
                   g |-> l.g]
             ELSE [co |-> [co EXCEPT !.pc = "users.info"], g |-> l.g]

\* A coroutine whose rejection nothing catches.
CaughtNothing(result) == result

\* .catch((e) => log.error(...)), lines 58-63: the promise update() waits on.
Caught(result) == IF result = "rejected" THEN "fulfilled" ELSE result

\* Promise.all over the two caught promises, line 57.
PromiseAll(a, b) ==
    IF a = "rejected" \/ b = "rejected" THEN "rejected"
    ELSE IF a = "fulfilled" /\ b = "fulfilled" THEN "fulfilled"
    ELSE "pending"

\* The state of the promise update() returned to its caller.
updateResult(t) == PromiseAll(Caught(dn[t].result), Caught(av[t].result))

SetCache(g) ==
    /\ userInfoCache' = g.cache
    /\ userInfoLoading' = g.loading
    /\ remoteCalls' = g.calls
    /\ requests' = g.requests
    /\ timers' = g.timers
    /\ cacheAge' = g.age

\* ----------------------------------------------------------------- actions
\* A lookupAvatarUrl call that has not been made.
IdleLa == [pc |-> "idle", user |-> <<>>, ret |-> NoUrl]

\* A sendMessage call that has not been made.  event is the event the
\* homeserver created for it, matrixEvent what intent.sendMessage resolved
\* to, calls what the coroutine called.
IdleSnd == [pc |-> "idle", roomId |-> "", msg |-> "", slackRoomID |-> "",
            slackEventTS |-> 0, event |-> <<>>, matrixEvent |-> <<>>,
            calls |-> <<>>, result |-> "pending", ret |-> <<>>]

\* toEntry has not been called.
IdleRt == [pc |-> "idle", ghost |-> <<>>, entry |-> <<>>, loaded |-> <<>>]

\* No call is taken on its own.
OtherIdle ==
    /\ la = IdleLa
    /\ rt = IdleRt
    /\ sentMessages = 0
    /\ eventStore = {}
    /\ timeline = <<>>
    /\ snd = [s \in Sends |-> IdleSnd]

\* The ghost as built from an entry of the store, nothing called yet.
GhostInit ==
    /\ \E entry \in Entries :
         LET ghost == fromEntry(entry)
         IN  /\ userId = ghost.userId
             /\ displayName = ghost.displayName
             /\ avatarUrl = ghost.avatarUrl
             /\ userInfoCache = ghost.userInfoCache
             /\ userInfoLoading = ghost.userInfoLoading
    /\ remoteCalls = 0
    /\ requests = <<>>
    /\ timers = <<>>
    /\ cacheAge = 0
    /\ puppetName = displayName
    /\ puppetAvatar = IF avatarUrl = NoUrl THEN <<>>
                      ELSE ContentUriOf(ShortName(avatarUrl))
    /\ upd = [t \in Tasks |-> IdleUpd]
    /\ dn = [t \in Tasks |-> IdleDn]
    /\ av = [t \in Tasks |-> IdleAv]

Init == GhostInit /\ OtherIdle

\* update(message, room), lines 55-65: both coroutines run to their first
\* await, updateDisplayname first.  Calls are numbered in the order made.
update(t, message, room) ==
    /\ upd[t].st = "idle"
    /\ \A u \in Tasks : u < t => upd[u].st # "idle"
    /\ LET d == updateDisplayname(CacheState, message, room, displayName)
           a == updateAvatar(d.g, message, room, avatarUrl)
       IN  /\ dn' = [dn EXCEPT ![t] = d.co]
           /\ av' = [av EXCEPT ![t] = a.co]
           /\ SetCache(a.g)
    /\ upd' = [upd EXCEPT ![t] = [st |-> "called", message |-> message,
                                   room |-> room,
                                   prior |-> {u \in Tasks :
                                                upd[u].st = "called"
                                                /\ updateResult(u) # "pending"}]]
    /\ UNCHANGED <<userId, displayName, avatarUrl, puppetName, puppetAvatar>>
    /\ UNCHANGED otherVars

\* Lines 113-117 or 130-138, then 69-71 and 86-90: updateDisplayname resumes
\* from the lookup it awaits.
getDisplaynameResumed(co, g, stored) ==
    LET l == lookupUserInfoResume(g, co.how, co.p)
    IN  [co |-> IF l.thrown THEN Throw([co EXCEPT !.got = "thrown"])
                ELSE decideDisplayname(
                         [co EXCEPT !.got = "value", !.user = l.user],
                         getDisplaynameOf(l.user), stored),
         g |-> l.g]

\* Lines 113-117 or 130-138, then 97-104 and 148-163: updateAvatar resumes
\* from the lookup it awaits.
lookupAvatarUrlResumed(co, g, stored) ==
    LET l == lookupUserInfoResume(g, co.how, co.p)
    IN  [co |-> IF l.thrown THEN Throw([co EXCEPT !.got = "thrown"])
                ELSE decideAvatar(
                         [co EXCEPT !.got = "value", !.user = l.user],
                         lookupAvatarUrlOf(l.user), stored),
         g |-> l.g]

\* The coroutines awaiting request p, in the order they began to await:
\* calls are numbered in the order made, and in a call updateDisplayname
\* runs before updateAvatar.
RECURSIVE Awaiting(_, _)
Awaiting(p, t) ==
    IF t > NumTasks THEN <<>>
    ELSE (IF dn[t].pc = "users.info" /\ dn[t].p = p THEN <<<<t, "dn">>>> ELSE <<>>)
         \o (IF av[t].pc = "users.info" /\ av[t].p = p THEN <<<<t, "av">>>> ELSE <<>>)
         \o Awaiting(p, t + 1)

\* The handlers of a settled request run one after the other in the same
\* turn of the event loop: each awaiting coroutine resumes and runs to its
\* next await on I/O.
RECURSIVE ResumeAll(_, _)
ResumeAll(waiting, s) ==
    IF waiting = <<>> THEN s
    ELSE LET t == Head(waiting)[1]
         IN  IF Head(waiting)[2] = "dn"
             THEN LET r == getDisplaynameResumed(s.dn[t], s.g, displayName)
                  IN  ResumeAll(Tail(waiting),
                                [s EXCEPT !.dn[t] = r.co, !.g = r.g])
             ELSE LET r == lookupAvatarUrlResumed(s.av[t], s.g, avatarUrl)
                  IN  ResumeAll(Tail(waiting),
                                [s EXCEPT !.av[t] = r.co, !.g = r.g])

\* The users.info request p is in flight: the remote call has not answered.
usersInfoPending(p) == requests[p].st = "pending"

\* The users.info request p settles, with a body or with a transport
\* failure, and every coroutine awaiting it resumes.
usersInfoSettle(p, ok, response) ==
    /\ usersInfoPending(p)
    /\ LET g == [CacheState EXCEPT
                   !.requests[p].st = IF ok THEN "resolved" ELSE "rejected",
                   !.requests[p].resp = IF ok THEN response ELSE @]
           s == ResumeAll(Awaiting(p, 1), [dn |-> dn, av |-> av, g |-> g])
       IN  /\ dn' = s.dn
           /\ av' = s.av
           /\ SetCache(s.g)
    /\ UNCHANGED <<userId, displayName, avatarUrl, puppetName,
                   puppetAvatar, upd>>
    /\ UNCHANGED otherVars

\* updateDisplayname resumes from a request that had settled before the
\* coroutine began to await it.
getDisplaynameResume(t) ==
    /\ dn[t].pc = "users.info"
    /\ requests[dn[t].p].st # "pending"
    /\ LET r == getDisplaynameResumed(dn[t], CacheState, displayName)
       IN  /\ SetCache(r.g)
           /\ dn' = [dn EXCEPT ![t] = r.co]
    /\ UNCHANGED <<userId, displayName, avatarUrl, puppetName,
                   puppetAvatar, upd, av>>
    /\ UNCHANGED otherVars

\* updateAvatar resumes from a request that had settled before the coroutine
\* began to await it.
lookupAvatarUrlResume(t) ==
    /\ av[t].pc = "users.info"
    /\ requests[av[t].p].st # "pending"
    /\ LET r == lookupAvatarUrlResumed(av[t], CacheState, avatarUrl)
       IN  /\ SetCache(r.g)
           /\ av' = [av EXCEPT ![t] = r.co]
    /\ UNCHANGED <<userId, displayName, avatarUrl, puppetName,
                   puppetAvatar, upd, dn>>
    /\ UNCHANGED otherVars

\* The homeserver applies the display name the puppet was asked to set.
setDisplayNameApplied(t) ==
    /\ dn[t].pc = "setDisplayName"
    /\ ~dn[t].applied
    /\ puppetName' = dn[t].name
    /\ dn' = [dn EXCEPT ![t].applied = TRUE]
    /\ UNCHANGED <<userId, displayName, avatarUrl, userInfoCache,
                   userInfoLoading, remoteCalls, requests, timers, cacheAge,
                   puppetAvatar, upd, av>>
    /\ UNCHANGED otherVars

\* The ghost handed to putUserToStore before the name is assigned.
storeDisplayNameStale(co, id, stored, avatar) ==
    [co |-> [co EXCEPT !.pc = "putUserToStore", !.wrote = TRUE,
                       !.put = Append(@, toEntry(id, stored, avatar))],
     displayName |-> co.name]

\* Lines 91-92 of updateDisplayname: store the name, then hand the ghost to
\* putUserToStore, whose promise the coroutine returns.
storeDisplayName(co, id, stored, avatar) ==
    LET assigned == co.name
    IN  [co |-> [co EXCEPT !.pc = "putUserToStore", !.wrote = TRUE,
                           !.put = Append(@, toEntry(id, assigned, avatar))],
         displayName |-> assigned]

\* The name assigned whether setDisplayName returned or threw.
setDisplayNameReturnEager(t, ok) ==
    /\ dn[t].pc = "setDisplayName"
    /\ dn[t].applied = ok
    /\ LET s == storeDisplayName(dn[t], userId, displayName, avatarUrl)
       IN  /\ dn' = [dn EXCEPT ![t] = IF ok THEN s.co ELSE Throw(s.co)]
           /\ displayName' = s.displayName
    /\ UNCHANGED <<userId, avatarUrl, userInfoCache, userInfoLoading,
                   remoteCalls, requests, timers, cacheAge, puppetName,
                   puppetAvatar, upd, av>>
    /\ UNCHANGED otherVars

\* await this.intent.setDisplayName(displayName) returns or throws (line 90).
setDisplayNameReturn(t, ok) ==
    /\ dn[t].pc = "setDisplayName"
    /\ dn[t].applied = ok
    /\ IF ok
       THEN LET s == storeDisplayName(dn[t], userId, displayName, avatarUrl)
            IN  /\ dn' = [dn EXCEPT ![t] = s.co]
                /\ displayName' = s.displayName
       ELSE /\ dn' = [dn EXCEPT ![t] = Throw(@)]
            /\ UNCHANGED displayName
    /\ UNCHANGED <<userId, avatarUrl, userInfoCache, userInfoLoading,
                   remoteCalls, requests, timers, cacheAge, puppetName,
                   puppetAvatar, upd, av>>
    /\ UNCHANGED otherVars

\* The promise of putUserToStore that updateDisplayname returned settles
\* (line 92).
putUserToStoreReturn(t, ok) ==
    /\ dn[t].pc = "putUserToStore"
    /\ dn' = [dn EXCEPT ![t] = IF ok THEN Return(@) ELSE Throw(@)]
    /\ UNCHANGED <<userId, displayName, avatarUrl, userInfoCache,
                   userInfoLoading, remoteCalls, requests, timers, cacheAge,
                   puppetName, puppetAvatar, upd, av>>
    /\ UNCHANGED otherVars

\* await rp({uri: avatarUrl, ...}) returns or throws (lines 159-168); on
\* return uploadContent is called with the body.
mediaReturn(t, ok) ==
    /\ av[t].pc = "media"
    /\ av' = [av EXCEPT ![t] =
                IF ok
                THEN [@ EXCEPT !.pc = "uploadContent",
                               !.calls = Append(@, <<"uploadContent", av[t].title>>)]
                ELSE Throw(@)]
    /\ UNCHANGED <<userId, displayName, avatarUrl, userInfoCache,
                   userInfoLoading, remoteCalls, requests, timers, cacheAge,
                   puppetName, puppetAvatar, upd, dn>>
    /\ UNCHANGED otherVars

\* await this.uploadContent(...) returns the content URI or throws (lines
\* 164-169, 220-229); on return setAvatarUrl is called with the URI.
uploadContentReturn(t, ok) ==
    /\ av[t].pc = "uploadContent"
    /\ av' = [av EXCEPT ![t] =
                IF ok
                THEN [@ EXCEPT !.pc = "setAvatarUrl",
                               !.uri = ContentUriOf(av[t].title),
                               !.calls = Append(@, <<"setAvatarUrl",
                                                     ContentUriOf(av[t].title)>>)]
                ELSE Throw(@)]
    /\ UNCHANGED <<userId, displayName, avatarUrl, userInfoCache,
                   userInfoLoading, remoteCalls, requests, timers, cacheAge,
                   puppetName, puppetAvatar, upd, dn>>
    /\ UNCHANGED otherVars

\* The homeserver applies the avatar the puppet was asked to set.
setAvatarUrlApplied(t) ==
    /\ av[t].pc = "setAvatarUrl"
    /\ ~av[t].applied
    /\ puppetAvatar' = av[t].uri
    /\ av' = [av EXCEPT ![t].applied = TRUE]
    /\ UNCHANGED <<userId, displayName, avatarUrl, userInfoCache,
                   userInfoLoading, remoteCalls, requests, timers, cacheAge,
                   puppetName, upd, dn>>
    /\ UNCHANGED otherVars

\* The content URI stored in place of the Slack URL.
storeAvatarContentUri(co, id, name, stored) ==
    [co |-> Return([co EXCEPT !.wrote = TRUE,
                              !.put = Append(@, toEntry(id, name, co.uri))]),
     avatarUrl |-> co.uri]

\* Lines 170-171 of updateAvatar: store the Slack URL, then hand the ghost to
\* putUserToStore without waiting for it.
storeAvatar(co, id, name, stored) ==
    LET assigned == co.url
    IN  [co |-> Return([co EXCEPT !.wrote = TRUE,
                                  !.put = Append(@, toEntry(id, name, assigned))]),
         avatarUrl |-> assigned]

\* await this.intent.setAvatarUrl(contentUri) returns or throws (line 169).
setAvatarUrlReturn(t, ok) ==
    /\ av[t].pc = "setAvatarUrl"
    /\ av[t].applied = ok
    /\ IF ok
       THEN LET s == storeAvatar(av[t], userId, displayName, avatarUrl)
            IN  /\ av' = [av EXCEPT ![t] = s.co]
                /\ avatarUrl' = s.avatarUrl
       ELSE /\ av' = [av EXCEPT ![t] = Throw(@)]
            /\ UNCHANGED avatarUrl
    /\ UNCHANGED <<userId, displayName, userInfoCache, userInfoLoading,
                   remoteCalls, requests, timers, cacheAge, puppetName,
                   puppetAvatar, upd, dn>>
    /\ UNCHANGED otherVars

\* A callback that may run as soon as it is scheduled.
TimerMayFireAtOnce(left) == TRUE

\* A setTimeout callback runs no earlier than its delay.
TimerMayFire(left) == left <= 0

\* () => this.userInfoCache = undefined, line 136.
timerFire(i) ==
    /\ i \in 1..Len(timers)
    /\ TimerMayFire(timers[i])
    /\ userInfoCache' = <<>>
    /\ timers' = SubSeq(timers, 1, i - 1) \o SubSeq(timers, i + 1, Len(timers))
    /\ UNCHANGED <<userId, displayName, avatarUrl, userInfoLoading,
                   remoteCalls, requests, cacheAge, puppetName, puppetAvatar,
                   upd, dn, av>>
    /\ UNCHANGED otherVars

\* Time passes, as long as a timer is still running.
tick ==
    /\ \E i \in 1..Len(timers) : timers[i] > 0
    /\ timers' = [i \in 1..Len(timers) |-> timers[i] - TickMs]
    /\ cacheAge' = cacheAge + TickMs
    /\ UNCHANGED <<userId, displayName, avatarUrl, userInfoCache,
                   userInfoLoading, remoteCalls, requests,
                   puppetName, puppetAvatar, upd, dn, av>>
    /\ UNCHANGED otherVars

Next ==
    \/ \E t \in Tasks, message \in Messages, room \in Rooms :
           update(t, message, room)
    \/ \E p \in 1..Len(requests), ok \in BOOLEAN, response \in Responses :
           usersInfoSettle(p, ok, response)
    \/ \E t \in Tasks : getDisplaynameResume(t)
    \/ \E t \in Tasks : lookupAvatarUrlResume(t)
    \/ \E t \in Tasks : setDisplayNameApplied(t)
    \/ \E t \in Tasks, ok \in BOOLEAN : setDisplayNameReturn(t, ok)
    \/ \E t \in Tasks, ok \in BOOLEAN : putUserToStoreReturn(t, ok)
    \/ \E t \in Tasks, ok \in BOOLEAN : mediaReturn(t, ok)
    \/ \E t \in Tasks, ok \in BOOLEAN : uploadContentReturn(t, ok)
    \/ \E t \in Tasks : setAvatarUrlApplied(t)
    \/ \E t \in Tasks, ok \in BOOLEAN : setAvatarUrlReturn(t, ok)
    \/ \E i \in 1..Len(timers) : timerFire(i)
    \/ tick

Spec == Init /\ [][Next]_vars

\* ------------------------------------- update() for more than one subject
\* update() takes the subject from the event: message.user_id (lines 83 and
\* 147), which need not be the subject of an earlier call.
OtherSubjects == {"U2"}
MessagesOfAnySubject ==
    [user_id : Subjects \cup OtherSubjects, user_name : InlineNames]

NextAnySubject ==
    \/ \E t \in Tasks, message \in MessagesOfAnySubject, room \in Rooms :
           update(t, message, room)
    \/ \E p \in 1..Len(requests), ok \in BOOLEAN, response \in Responses :
           usersInfoSettle(p, ok, response)
    \/ \E t \in Tasks : getDisplaynameResume(t)
    \/ \E t \in Tasks : lookupAvatarUrlResume(t)
    \/ \E t \in Tasks : setDisplayNameApplied(t)
    \/ \E t \in Tasks, ok \in BOOLEAN : setDisplayNameReturn(t, ok)
    \/ \E t \in Tasks, ok \in BOOLEAN : putUserToStoreReturn(t, ok)
    \/ \E t \in Tasks, ok \in BOOLEAN : mediaReturn(t, ok)
    \/ \E t \in Tasks, ok \in BOOLEAN : uploadContentReturn(t, ok)
    \/ \E t \in Tasks : setAvatarUrlApplied(t)
    \/ \E t \in Tasks, ok \in BOOLEAN : setAvatarUrlReturn(t, ok)
    \/ \E i \in 1..Len(timers) : timerFire(i)
    \/ tick

SpecAnySubject == Init /\ [][NextAnySubject]_vars

\* ------------------------------------------- lookupAvatarUrl on its own
\* The URL a profile holds for a candidate image.
ImageUrl(image) == <<"h", "/", image>>

\* The profiles with every combination of present and absent candidates.
ImageProfiles ==
    {Profile(Undefined, Undefined, orig, i1024, i512, i192, i72, i48) :
        orig \in {NoUrl, ImageUrl("original")},
        i1024 \in {NoUrl, ImageUrl("1024")},
        i512 \in {NoUrl, ImageUrl("512")},
        i192 \in {NoUrl, ImageUrl("192")},
        i72 \in {NoUrl, ImageUrl("72")},
        i48 \in {NoUrl, ImageUrl("48")}}

\* What lookupUserInfo may resolve to: undefined, a user without a profile,
\* a user with a profile.
LookedUpUsers ==
    {<<>>, <<User(<<>>)>>} \cup {<<User(<<profile>>)>> : profile \in ImageProfiles}

\* lookupAvatarUrl is called and awaits lookupUserInfo (lines 95-96), which
\* resolves to user.
lookupAvatarUrlCall(user) ==
    /\ la.pc = "idle"
    /\ la' = [la EXCEPT !.pc = "lookupUserInfo", !.user = user]
    /\ UNCHANGED <<syncVars, sentMessages, eventStore, timeline, snd, rt>>

\* lookupAvatarUrl resumes with the user and returns (lines 97-104).
lookupAvatarUrlReturn ==
    /\ la.pc = "lookupUserInfo"
    /\ la' = [la EXCEPT !.pc = "done", !.ret = lookupAvatarUrlOf(la.user)]
    /\ UNCHANGED <<syncVars, sentMessages, eventStore, timeline, snd, rt>>

NextLookupAvatarUrl ==
    \/ \E user \in LookedUpUsers : lookupAvatarUrlCall(user)
    \/ lookupAvatarUrlReturn

SpecLookupAvatarUrl == Init /\ [][NextLookupAvatarUrl]_vars

\* ----------------------------------------------- sendMessage on its own
RoomIds == {"!room"}
Contents == {"hello"}
SlackRoomIds == {"C1"}
SlackEventTSs == {1, 2}

\* new StoreEvent(roomId, eventId, remoteRoomId, remoteEventId), line 196.
StoreEvent(roomId, eventId, remoteRoomId, remoteEventId) ==
    [roomId |-> roomId, eventId |-> eventId, remoteRoomId |-> remoteRoomId,
     remoteEventId |-> remoteEventId]

\* store.upsertEvent(event): the record with the key of event is replaced.
upsertEvent(store, event) ==
    {e \in store : ~(e.roomId = event.roomId /\ e.eventId = event.eventId)}
    \cup {event}

\* sendMessage is called and awaits intent.sendMessage (lines 192-193).
sendMessage(s, roomId, msg, slackRoomID, slackEventTS) ==
    /\ snd[s].pc = "idle"
    /\ \A r \in Sends : r < s => snd[r].pc # "idle"
    /\ snd' = [snd EXCEPT ![s] =
                 [@ EXCEPT !.pc = "intent.sendMessage", !.roomId = roomId,
                           !.msg = msg, !.slackRoomID = slackRoomID,
                           !.slackEventTS = slackEventTS,
                           !.calls = <<<<"intent.sendMessage", roomId, msg>>>>]]
    /\ UNCHANGED <<syncVars, la, rt, sentMessages, eventStore, timeline>>

\* The homeserver adds the message to the room and gives it an event id.
intentSendMessageApplied(s) ==
    /\ snd[s].pc = "intent.sendMessage"
    /\ snd[s].event = <<>>
    /\ timeline' = Append(timeline, [roomId |-> snd[s].roomId,
                                      content |-> snd[s].msg])
    /\ snd' = [snd EXCEPT ![s].event = <<[event_id |-> Len(timeline) + 1]>>]
    /\ UNCHANGED <<syncVars, la, rt, sentMessages, eventStore>>

\* The counter incremented whether the send returned or threw.
intentSendMessageReturnCounted(s, ok) ==
    /\ snd[s].pc = "intent.sendMessage"
    /\ ok => snd[s].event # <<>>
    /\ sentMessages' = sentMessages + 1
    /\ snd' = [snd EXCEPT ![s] =
                 IF ok
                 THEN [@ EXCEPT !.pc = "upsertEvent",
                                !.matrixEvent = snd[s].event,
                                !.calls = @ \o <<<<"incCounter", "sent_messages">>,
                                                 <<"upsertEvent",
                                                   StoreEvent(snd[s].roomId,
                                                              snd[s].event[1].event_id,
                                                              snd[s].slackRoomID,
                                                              snd[s].slackEventTS)>>>>]
                 ELSE Throw(@)]
    /\ UNCHANGED <<syncVars, la, rt, eventStore, timeline>>

\* await this.intent.sendMessage(roomId, msg) returns the event or throws
\* (line 193); on return the counter is incremented and upsertEvent is
\* called with the StoreEvent (lines 194-198).
intentSendMessageReturn(s, ok) ==
    /\ snd[s].pc = "intent.sendMessage"
    /\ ok => snd[s].event # <<>>
    /\ sentMessages' = IF ok THEN sentMessages + 1 ELSE sentMessages
    /\ snd' = [snd EXCEPT ![s] =
                 IF ok
                 THEN [@ EXCEPT !.pc = "upsertEvent",
                                !.matrixEvent = snd[s].event,
                                !.calls = @ \o <<<<"incCounter", "sent_messages">>,
                                                 <<"upsertEvent",
                                                   StoreEvent(snd[s].roomId,
                                                              snd[s].event[1].event_id,
                                                              snd[s].slackRoomID,
                                                              snd[s].slackEventTS)>>>>]
                 ELSE Throw(@)]
    /\ UNCHANGED <<syncVars, la, rt, eventStore, timeline>>

\* await store.upsertEvent(event) returns or throws (line 198); on return
\* sendMessage returns matrixEvent (line 200).
upsertEventReturn(s, ok) ==
    /\ snd[s].pc = "upsertEvent"
    /\ eventStore' = IF ok THEN upsertEvent(eventStore, snd[s].calls[3][2])
                      ELSE eventStore
    /\ snd' = [snd EXCEPT ![s] =
                 IF ok THEN Return([@ EXCEPT !.ret = snd[s].matrixEvent])
                 ELSE Throw(@)]
    /\ UNCHANGED <<syncVars, la, rt, sentMessages, timeline>>

NextSendMessage ==
    \/ \E s \in Sends, roomId \in RoomIds, msg \in Contents,
          slackRoomID \in SlackRoomIds, slackEventTS \in SlackEventTSs :
           sendMessage(s, roomId, msg, slackRoomID, slackEventTS)
    \/ \E s \in Sends : intentSendMessageApplied(s)
    \/ \E s \in Sends, ok \in BOOLEAN : intentSendMessageReturn(s, ok)
    \/ \E s \in Sends, ok \in BOOLEAN : upsertEventReturn(s, ok)

SpecSendMessage == Init /\ [][NextSendMessage]_vars

\* ------------------------------------------ toEntry and fromEntry on their own
\* The ghosts toEntry is called on: the fields of lines 26-33, the cache
\* entry empty, cached or loading, the activity time set or not.
Ghosts ==
    {[userId |-> id, displayName |-> name, avatarUrl |-> avatar,
      userInfoCache |-> entry[1], userInfoLoading |-> entry[2],
      atime |-> atime] :
        id \in Subjects \cup {Undefined},
        name \in {Undefined, "", "Bob"},
        avatar \in {NoUrl, UrlA, UrlB},
        entry \in {<<<<>>, 0>>, <<RespAlice.user, 0>>, <<<<>>, 1>>},
        atime \in {<<>>, <<1>>}}

\* ghost.toEntry(), lines 47-53.
toEntryCall(ghost) ==
    /\ rt.pc = "idle"
    /\ rt' = [rt EXCEPT !.pc = "toEntry", !.ghost = <<ghost>>,
                        !.entry = <<toEntry(ghost.userId, ghost.displayName,
                                             ghost.avatarUrl)>>]
    /\ UNCHANGED <<syncVars, la, sentMessages, eventStore, timeline, snd>>

\* SlackGhost.fromEntry(main, entry, intent) on the entry toEntry returned,
\* lines 37-45.
fromEntryCall ==
    /\ rt.pc = "toEntry"
    /\ rt' = [rt EXCEPT !.pc = "fromEntry", !.loaded = <<fromEntry(rt.entry[1])>>]
    /\ UNCHANGED <<syncVars, la, sentMessages, eventStore, timeline, snd>>

NextEntry ==
    \/ \E ghost \in Ghosts : toEntryCall(ghost)
    \/ fromEntryCall

SpecEntry == Init /\ [][NextEntry]_vars

\* =================================================================== claims
\* The lookups made so far, one per coroutine that called lookupUserInfo.
Lookups ==
    {[t |-> t, co |-> "dn", how |-> dn[t].how, p |-> dn[t].p,
      got |-> dn[t].got, user |-> dn[t].user] :
        t \in {u \in Tasks : dn[u].how \in {"hit", "join", "fetch"}}}
    \cup
    {[t |-> t, co |-> "av", how |-> av[t].how, p |-> av[t].p,
      got |-> av[t].got, user |-> av[t].user] :
        t \in {u \in Tasks : av[u].how \in {"hit", "join", "fetch"}}}

\* The users.info requests that have not settled.
Outstanding == {p \in 1..Len(requests) : requests[p].st = "pending"}

\* C1: at most one users.info request is outstanding at any time, every
\* remote call was counted exactly once, and of the lookups that await an
\* outstanding request exactly one made it, all others joined it.
C1_SingleFlight ==
    /\ Cardinality(Outstanding) <= 1
    /\ remoteCalls = Len(requests)
    /\ \A p \in Outstanding :
         /\ userInfoLoading = p
         /\ Cardinality({l \in Lookups : l.p = p /\ l.how = "fetch"}) = 1
         /\ \A l \in Lookups : l.p = p => l.got = "none"

\* C1 witness: three lookups, of two update() calls, await the one
\* outstanding request.
C1_Witness ==
    \E p \in Outstanding :
        /\ Cardinality({l \in Lookups : l.p = p}) >= 3
        /\ remoteCalls = 1

\* C2: all lookups that awaited the same request got the same outcome: the
\* same user, undefined for all, or the failure for all.
C2_SameOutcome ==
    \A a, b \in Lookups :
        (a.p # 0 /\ a.p = b.p /\ a.got # "none" /\ b.got # "none")
            => (a.got = b.got /\ a.user = b.user)

\* A lookup that made a request which ended in a transport failure or in a
\* malformed response, and has resumed from it.
FailedFetch(l) ==
    /\ l.how = "fetch"
    /\ l.got # "none"
    /\ \/ requests[l.p].st = "rejected"
       \/ requests[l.p].st = "resolved" /\ Malformed(requests[l.p].resp)

\* C3: once the latest fetch has ended in a malformed response or a transport
\* failure, the cache entry is Empty: neither the cached value nor the
\* in-flight handle is set.
C3_NoNegativeCache ==
    \A l \in Lookups :
        (FailedFetch(l) /\ l.p = Len(requests))
            => (userInfoCache = <<>> /\ userInfoLoading = 0)

\* The user stored by the latest fetch, <<>> when the latest request has not
\* resolved with a well-formed response.  cacheAge counts from that store.
LastStored ==
    IF requests # <<>>
       /\ requests[Len(requests)].st = "resolved"
       /\ ~Malformed(requests[Len(requests)].resp)
    THEN requests[Len(requests)].resp.user
    ELSE <<>>

\* The room exposes a credential.
HasToken(room) == room.AccessToken \in Tokens

\* This step is update() call t, on a room with a credential.
Calls(t) ==
    /\ upd[t].st = "idle"
    /\ upd'[t].st = "called"
    /\ HasToken(upd'[t].room)

\* Call t is served from the cache: no remote call, and each lookup it makes
\* returns the cached user.
ServedFromCache(t) ==
    /\ remoteCalls' = remoteCalls
    /\ av'[t].how = "hit" /\ av'[t].user = LastStored
    /\ dn'[t].how \in {"inline", "hit"}
    /\ dn'[t].how = "hit" => dn'[t].user = LastStored

\* C4 (as amended): once a well-formed profile has been cached, every lookup
\* made before the timeout elapses returns the cached user without a remote
\* call, and the first lookup made after the eviction timer has fired makes
\* a fresh remote call; until the timer has fired, also once the timeout has
\* elapsed, lookups are served from the cache.
C4_TTL ==
    [][\A t \in Tasks :
         (Calls(t) /\ LastStored # <<>>) =>
             /\ cacheAge < USER_CACHE_TIMEOUT => ServedFromCache(t)
             /\ timers = <<>> => remoteCalls' = remoteCalls + 1
             /\ timers # <<>> => ServedFromCache(t)]_vars

\* C4 witness: a second remote call was made after the first profile had been
\* cached for the whole timeout and evicted.
C4_Witness ==
    /\ Len(requests) = 2
    /\ requests[1].st = "resolved" /\ ~Malformed(requests[1].resp)
    /\ \E t \in Tasks : av[t].how = "fetch" /\ av[t].p = 2

\* C4 as claimed: the first lookup made once the timeout has elapsed makes a
\* fresh remote call.
C4_AsClaimed ==
    [][\A t \in Tasks :
         (Calls(t) /\ LastStored # <<>>) =>
             /\ cacheAge < USER_CACHE_TIMEOUT => ServedFromCache(t)
             /\ cacheAge >= USER_CACHE_TIMEOUT =>
                    remoteCalls' = remoteCalls + 1]_vars

\* Each path of a completed update() that had its puppet call succeed applied
\* its change, whatever became of the other path.
PathsIndependent(t) ==
    (dn[t].pc = "done" /\ av[t].pc = "done") =>
        /\ dn[t].applied => dn[t].wrote /\ dn[t].put # <<>>
        /\ av[t].applied => av[t].wrote /\ av[t].put # <<>>

\* A users.info request that call t awaits is in flight, so that it can
\* settle: usersInfoSettle has no other condition.
AwaitsPending(t) ==
    \E p \in {dn[t].p, av[t].p} \cap (1..Len(requests)) : usersInfoPending(p)

\* A step of call t other than the settling of a users.info request: a
\* coroutine of it resumes, or a call it awaits returns.
StepOf(t) ==
    \/ getDisplaynameResume(t) \/ lookupAvatarUrlResume(t)
    \/ setDisplayNameApplied(t) \/ setAvatarUrlApplied(t)
    \/ \E ok \in BOOLEAN :
           \/ setDisplayNameReturn(t, ok)
           \/ putUserToStoreReturn(t, ok)
           \/ mediaReturn(t, ok)
           \/ uploadContentReturn(t, ok)
           \/ setAvatarUrlReturn(t, ok)

\* C5: the promise of update() is never rejected; a path's failure leaves
\* the other path's change applied; and an update() that has not completed
\* is never stuck: a call it awaits can settle or a coroutine of it can run,
\* so that it completes once the calls it made have all settled.
C5_UpdateNeverRejects ==
    \A t \in Tasks :
        /\ updateResult(t) # "rejected"
        /\ PathsIndependent(t)
        /\ (upd[t].st = "called" /\ updateResult(t) = "pending")
               => (AwaitsPending(t) \/ ENABLED StepOf(t))
        /\ (upd[t].st = "called" /\ dn[t].pc = "done" /\ av[t].pc = "done")
               => updateResult(t) = "fulfilled"

\* C5 witness: an update() completed with the display-name path rejected and
\* the avatar applied, and another with the avatar path rejected and the
\* display name applied.
C5_Witness ==
    \E t, u \in Tasks :
        /\ updateResult(t) = "fulfilled" /\ updateResult(u) = "fulfilled"
        /\ dn[t].result = "rejected" /\ ~dn[t].wrote /\ av[t].wrote
        /\ av[u].result = "rejected" /\ dn[u].wrote

\* Call t overlapped no other call.
RanAlone(t) ==
    /\ \A u \in Tasks : u < t => u \in upd[t].prior
    /\ \A u \in Tasks : u > t => (upd[u].st = "idle" \/ t \in upd[u].prior)

\* Calls t1 and t2 were made one after the other with the same event and
\* room, t1 completed without a failed lookup, media fetch, upload or puppet
\* call, and t2 has resolved the same profile data as t1.
TwiceInARow(t1, t2) ==
    /\ t2 = t1 + 1
    /\ upd[t2].st = "called"
    /\ RanAlone(t1) /\ RanAlone(t2)
    /\ upd[t1].message = upd[t2].message /\ upd[t1].room = upd[t2].room
    /\ dn[t1].pc = "done" /\ (dn[t1].result = "fulfilled" \/ dn[t1].wrote)
    /\ av[t1].result = "fulfilled"
    /\ dn[t2].pc # "users.info" /\ av[t2].pc # "users.info"
    /\ dn[t2].got = dn[t1].got /\ dn[t2].user = dn[t1].user
    /\ av[t2].got = av[t1].got /\ av[t2].user = av[t1].user

\* C6: the second of two identical update() calls made in a row calls
\* neither the puppet, nor the media store, nor persistence.
C6_DiffIdempotent ==
    \A t1, t2 \in Tasks :
        TwiceInARow(t1, t2) =>
            /\ dn[t2].calls = <<>> /\ dn[t2].put = <<>> /\ ~dn[t2].wrote
            /\ av[t2].calls = <<>> /\ av[t2].put = <<>> /\ ~av[t2].wrote
            /\ dn[t2].pc = "done" /\ av[t2].pc = "done"

\* C6 witness: the first call changed the name and the avatar, the second,
\* identical, has completed.
C6_Witness ==
    \E t1, t2 \in Tasks :
        /\ TwiceInARow(t1, t2)
        /\ dn[t1].wrote /\ av[t1].wrote
        /\ updateResult(t2) = "fulfilled"

\* The calls the avatar path makes before it stores the avatar.
AvatarCalls(co) ==
    <<<<"rp", co.url>>, <<"uploadContent", co.title>>, <<"setAvatarUrl", co.uri>>>>

\* C7: a path stores its value in the step in which its puppet call returns,
\* after exactly one puppet call with the new value; in that same step the
\* ghost field holds the new value and persistence is handed, once, the
\* entry of the ghost as updated; persistence is invoked at no other time.
C7_PuppetStorePersist ==
    [][\A t \in Tasks :
         /\ (~dn[t].wrote /\ dn'[t].wrote) =>
                /\ dn[t].pc = "setDisplayName" /\ dn[t].applied
                /\ dn[t].calls = <<<<"setDisplayName", dn[t].name>>>>
                /\ dn'[t].calls = dn[t].calls
                /\ displayName' = dn[t].name
                /\ dn'[t].put = <<toEntry(userId', displayName', avatarUrl')>>
         /\ (~av[t].wrote /\ av'[t].wrote) =>
                /\ av[t].pc = "setAvatarUrl" /\ av[t].applied
                /\ av[t].calls = AvatarCalls(av[t])
                /\ av'[t].calls = av[t].calls
                /\ avatarUrl' = av[t].url
                /\ av'[t].put = <<toEntry(userId', displayName', avatarUrl')>>
         /\ dn'[t].put # dn[t].put => (~dn[t].wrote /\ dn'[t].wrote)
         /\ av'[t].put # av[t].put => (~av[t].wrote /\ av'[t].wrote)
         /\ (dn[t].applied /\ dn'[t].pc # "setDisplayName") => dn'[t].wrote
         /\ (av[t].applied /\ av'[t].pc # "setAvatarUrl") => av'[t].wrote]_vars

\* C7 witness: one update() changed the stored name from Bob to Alice and
\* the avatar, and persisted each.
C7_Witness ==
    \E t \in Tasks :
        /\ dn[t].wrote /\ dn[t].name = "Alice" /\ dn[t].pc = "done"
        /\ av[t].wrote /\ av[t].pc = "done"
        /\ dn[t].put # <<>> /\ av[t].put # <<>>

\* C8: an update() on a room without a credential changes nothing: no remote
\* call, the counter, the cache entry and the stored name and avatar are
\* unchanged, both paths return at once without a puppet or persistence call.
C8_NoTokenNoop ==
    [][\A t \in Tasks :
         (upd[t].st = "idle" /\ upd'[t].st = "called" /\ ~HasToken(upd'[t].room)) =>
             /\ UNCHANGED <<remoteCalls, requests, userInfoCache,
                            userInfoLoading, timers, displayName, avatarUrl,
                            puppetName, puppetAvatar>>
             /\ dn'[t] = Return(IdleDn)
             /\ av'[t] = Return(IdleAv)
             /\ updateResult(t)' = "fulfilled"]_vars

\* C8 witness: an update() was called without a credential, with an inline
\* name that differs from the stored one.
C8_Witness ==
    \E t \in Tasks :
        /\ upd[t].st = "called"
        /\ upd[t].room.AccessToken = Undefined
        /\ upd[t].message.user_name = "Alice"
        /\ displayName = "Bob"

\* The lookup of call t's avatar path awaited a request that ended in a
\* transport failure or in a malformed response.
LookupFailed(t) ==
    /\ av[t].p # 0
    /\ av[t].got # "none"
    /\ \/ requests[av[t].p].st = "rejected"
       \/ requests[av[t].p].st = "resolved" /\ Malformed(requests[av[t].p].resp)

\* C9: when an update() skipped the profile change because its lookup
\* failed, the next update(), made after it completed on a room with a
\* credential, queries the remote service again.
C9_RetriesAfterFailure ==
    \A t1, t2 \in Tasks :
        ( /\ t2 = t1 + 1
          /\ upd[t2].st = "called"
          /\ RanAlone(t1) /\ RanAlone(t2)
          /\ LookupFailed(t1)
          /\ HasToken(upd[t2].room) )
            => (av[t2].how = "fetch" \/ dn[t2].how = "fetch")

\* A path that was rejected before its puppet call succeeded has stored
\* nothing and has not invoked persistence; an avatar path rejected by the
\* media fetch or the upload has not called setAvatarUrl.
FailedPathClean(t) ==
    /\ (dn[t].result = "rejected" /\ ~dn[t].applied) =>
           (~dn[t].wrote /\ dn[t].put = <<>>)
    /\ av[t].result = "rejected" =>
           /\ ~av[t].applied /\ ~av[t].wrote /\ av[t].put = <<>>
           /\ Len(av[t].calls) < 3 =>
                  \A i \in 1..Len(av[t].calls) : av[t].calls[i][1] # "setAvatarUrl"

\* C10: the stored name and avatar change only in the step in which the
\* puppet call for that very value returns successfully, and a path that
\* fails earlier stores nothing and persists nothing.
C10_StoreAfterPuppet ==
    [][/\ displayName' # displayName =>
            \E t \in Tasks :
                /\ dn[t].pc = "setDisplayName" /\ dn[t].applied
                /\ dn'[t].pc = "putUserToStore"
                /\ displayName' = dn[t].name
       /\ avatarUrl' # avatarUrl =>
            \E t \in Tasks :
                /\ av[t].pc = "setAvatarUrl" /\ av[t].applied
                /\ av'[t].result = "fulfilled"
                /\ avatarUrl' = av[t].url
       /\ \A t \in Tasks : FailedPathClean(t)']_vars

\* C10 witness: every kind of failure has happened and the stored name and
\* avatar are still those the ghost was built with.
C10_Witness ==
    /\ displayName = "Bob" /\ avatarUrl = UrlB
    /\ \E t, u \in Tasks :
         /\ t # u
         /\ dn[t].result = "rejected" /\ dn[t].calls # <<>>
         /\ av[t].result = "rejected" /\ Len(av[t].calls) = 1
         /\ av[u].result = "rejected" /\ Len(av[u].calls) = 2

\* The candidates of a profile in the order of preference of the claim.
Candidates(profile) ==
    <<profile.image_original, profile.image_1024, profile.image_512,
      profile.image_192, profile.image_72, profile.image_48>>

\* C11: lookupAvatarUrl returns the first candidate that is present, in the
\* order original, 1024, 512, 192, 72, 48, whatever the combination of
\* present and absent candidates, and nothing when the lookup yields no
\* user, a user without a profile, or a profile without any candidate.
C11_AvatarPreference ==
    la.pc = "done" =>
        IF la.user = <<>> \/ la.user[1].profile = <<>> THEN la.ret = NoUrl
        ELSE LET c == Candidates(la.user[1].profile[1])
             IN  \/ /\ \A i \in 1..6 : c[i] = NoUrl
                    /\ la.ret = NoUrl
                 \/ \E i \in 1..6 :
                        /\ c[i] # NoUrl
                        /\ \A j \in 1..(i - 1) : c[j] = NoUrl
                        /\ la.ret = c[i]

\* C11 witness: of a profile with image_512 and image_192 only, image_512
\* was returned.
C11_Witness ==
    /\ la.pc = "done"
    /\ la.user = <<User(<<Profile(Undefined, Undefined, NoUrl, NoUrl,
                                  ImageUrl("512"), ImageUrl("192"),
                                  NoUrl, NoUrl)>>)>>
    /\ la.ret = ImageUrl("512")

\* In this step the display-name path of call t, on a room with a
\* credential, gets the name to compare with the stored one.
ResolvesName(t) ==
    /\ dn[t].pc \in {"idle", "users.info"}
    /\ dn'[t].pc \notin {"idle", "users.info"}
    /\ HasToken(upd'[t].room)
    /\ dn'[t].got # "thrown"

\* The name of a looked-up user: the display name when the profile has one,
\* otherwise the real name, otherwise none.
NameOfProfile(user) ==
    IF user = <<>> \/ user[1].profile = <<>> THEN Undefined
    ELSE IF user[1].profile[1].display_name \notin {Undefined, ""}
    THEN user[1].profile[1].display_name
    ELSE IF user[1].profile[1].real_name \notin {Undefined, ""}
    THEN user[1].profile[1].real_name
    ELSE Undefined

\* C12: an inline name of the event is the name used, and the display-name
\* path then makes no lookup; without an inline name the name is that of the
\* looked-up profile, the display name before the real name; a name that is
\* absent or equal to the stored one leads to no puppet call and no
\* persistence, any other name to one setDisplayName call with it.
C12_NameResolution ==
    [][\A t \in Tasks :
         ResolvesName(t) =>
             LET inline == upd'[t].message.user_name
                 name == dn'[t].name
             IN  /\ inline \notin {Undefined, ""} =>
                        /\ name = inline
                        /\ dn'[t].how = "inline" /\ dn'[t].p = 0
                        /\ dn'[t].got = "none"
                 /\ inline \in {Undefined, ""} =>
                        /\ dn'[t].how \in {"hit", "join", "fetch"}
                        /\ dn'[t].got = "value"
                        /\ name = NameOfProfile(dn'[t].user)
                 /\ (name \in {Undefined, ""} \/ name = displayName) =>
                        /\ dn'[t].pc = "done" /\ dn'[t].result = "fulfilled"
                        /\ dn'[t].calls = <<>> /\ dn'[t].put = <<>>
                        /\ ~dn'[t].wrote
                        /\ UNCHANGED <<displayName, puppetName>>
                 /\ ~(name \in {Undefined, ""} \/ name = displayName) =>
                        /\ dn'[t].pc = "setDisplayName"
                        /\ dn'[t].calls = <<<<"setDisplayName", name>>>>]_vars

\* C12 witness: one call without an inline name resolved the real name Bob
\* of a profile without display name, equal to the stored name, and called
\* nothing; another call took the inline name Alice and called
\* setDisplayName.
C12_Witness ==
    \E t, u \in Tasks :
        /\ dn[t].how = "fetch" /\ dn[t].got = "value"
        /\ dn[t].user = RespBob.user
        /\ dn[t].name = "Bob" /\ dn[t].calls = <<>> /\ dn[t].pc = "done"
        /\ dn[u].how = "inline" /\ dn[u].name = "Alice"
        /\ dn[u].calls = <<<<"setDisplayName", "Alice">>>>

\* The correlation record of send s: the room and the event id that the
\* puppet send returned, the remote room and the remote timestamp.
RecordOf(s) ==
    [roomId |-> snd[s].roomId, eventId |-> snd[s].matrixEvent[1].event_id,
     remoteRoomId |-> snd[s].slackRoomID,
     remoteEventId |-> snd[s].slackEventTS]

\* The sends whose puppet send has returned an event.
Delivered == {s \in Sends : snd[s].matrixEvent # <<>>}

\* C13: sendMessage calls the puppet send first; the counter is incremented
\* once and upsertEvent called once, in this order and with the record
\* (room, event id returned, remote room, remote timestamp), exactly for the
\* sends whose puppet send returned; a send whose puppet send failed has
\* called nothing else; and every record of the store is that of a returned
\* send and names an event the homeserver holds in that room.
C13_SendThenCountThenRecord ==
    /\ \A s \in Sends :
         snd[s].pc # "idle" =>
             /\ snd[s].calls[1] = <<"intent.sendMessage", snd[s].roomId, snd[s].msg>>
             /\ s \notin Delivered => Len(snd[s].calls) = 1
             /\ s \in Delivered =>
                    /\ Len(snd[s].calls) = 3
                    /\ snd[s].calls[2] = <<"incCounter", "sent_messages">>
                    /\ snd[s].calls[3] = <<"upsertEvent", RecordOf(s)>>
                    /\ snd[s].matrixEvent = snd[s].event
             /\ snd[s].result = "fulfilled" =>
                    (s \in Delivered /\ snd[s].ret = snd[s].matrixEvent)
    /\ sentMessages = Cardinality(Delivered)
    /\ \A e \in eventStore :
         /\ \E s \in Delivered : e = RecordOf(s)
         /\ e.eventId \in 1..Len(timeline)
         /\ timeline[e.eventId].roomId = e.roomId
    /\ Cardinality(eventStore) <= Cardinality(Delivered)

\* C13 witness: one send failed at the puppet and left no trace, another
\* completed: the counter is 1 and the store holds the one record.
C13_Witness ==
    \E s, r \in Sends :
        /\ snd[s].result = "rejected" /\ s \notin Delivered
        /\ snd[r].result = "fulfilled"
        /\ sentMessages = 1
        /\ eventStore = {RecordOf(r)}

\* C14: the entry of a ghost has exactly the fields id, display_name and
\* avatar_url, with the ghost's userId, displayName and avatarUrl, and the
\* ghost built from that entry has the same userId, displayName and
\* avatarUrl and an empty cache entry.
C14_EntryRoundTrip ==
    /\ rt.pc \in {"toEntry", "fromEntry"} =>
           /\ DOMAIN rt.entry[1] = {"id", "display_name", "avatar_url"}
           /\ rt.entry[1].id = rt.ghost[1].userId
           /\ rt.entry[1].display_name = rt.ghost[1].displayName
           /\ rt.entry[1].avatar_url = rt.ghost[1].avatarUrl
    /\ rt.pc = "fromEntry" =>
           /\ rt.loaded[1].userId = rt.ghost[1].userId
           /\ rt.loaded[1].displayName = rt.ghost[1].displayName
           /\ rt.loaded[1].avatarUrl = rt.ghost[1].avatarUrl
           /\ rt.loaded[1].userInfoCache = <<>>
           /\ rt.loaded[1].userInfoLoading = 0

\* C14 witness: a ghost named Bob with a cached profile and an activity
\* time went through toEntry and fromEntry.
C14_Witness ==
    /\ rt.pc = "fromEntry"
    /\ rt.ghost[1].displayName = "Bob" /\ rt.ghost[1].avatarUrl = UrlA
    /\ rt.ghost[1].userInfoCache # <<>> /\ rt.ghost[1].atime # <<>>
    /\ rt.loaded[1].displayName = "Bob" /\ rt.loaded[1].avatarUrl = UrlA

\* No update() is in flight: every call made has completed.
Quiescent ==
    \A t \in Tasks : dn[t].pc \in {"idle", "done"} /\ av[t].pc \in {"idle", "done"}

\* The content URI the puppet holds for a stored avatar URL.
AppliedAvatarOf(url) ==
    IF url = NoUrl THEN <<>> ELSE ContentUriOf(ShortName(url))

\* C15: whenever no update() is in flight, the stored displayName is the name
\* the puppet holds, and the stored avatarUrl is the URL whose content the
\* puppet holds as avatar.
C15_StoredIsApplied ==
    Quiescent =>
        /\ displayName = puppetName
        /\ AppliedAvatarOf(avatarUrl) = puppetAvatar

\* This step evicts the cached value.
Evicts == userInfoCache # <<>> /\ userInfoCache' = <<>>

\* This step stores a value in the cache.
Stores == userInfoCache' # <<>> /\ userInfoCache' # userInfoCache

\* C16: a value is cached together with one timer of the full timeout, when
\* no timer is pending; while it is cached exactly that timer is pending,
\* with the time left that the value's age leaves of the timeout; the value
\* is evicted only by that timer, no earlier than the timeout after it was
\* stored, and is the value of the latest fetch; after the eviction no timer
\* is pending, so that no value is evicted twice.
C16_TimerEviction ==
    [][/\ Len(timers') <= 1
       /\ (timers' # <<>>) = (userInfoCache' # <<>>)
       /\ timers' # <<>> => timers'[1] = USER_CACHE_TIMEOUT - cacheAge'
       /\ Stores =>
              /\ userInfoCache = <<>> /\ timers = <<>>
              /\ timers' = <<USER_CACHE_TIMEOUT>> /\ cacheAge' = 0
              /\ userInfoCache' = LastStored'
       /\ Evicts =>
              /\ cacheAge >= USER_CACHE_TIMEOUT
              /\ userInfoCache = LastStored
              /\ Len(timers) = 1 /\ timers' = <<>>
              /\ UNCHANGED <<requests, userInfoLoading, dn, av>>]_vars

\* C16 witness: two fetches each cached a profile, and each was evicted by
\* its timer.
C16_Witness ==
    /\ Len(requests) = 2
    /\ \A p \in 1..2 : requests[p].st = "resolved" /\ ~Malformed(requests[p].resp)
    /\ userInfoCache = <<>> /\ timers = <<>>
    /\ \E t \in Tasks : av[t].how = "fetch" /\ av[t].p = 2 /\ av[t].got = "value"

\* C17: the cache entry is Empty, Loading or Cached: the cached value and
\* the in-flight handle are never both set, and a set in-flight handle is a
\* users.info request that has not settled.
C17_EntryStates ==
    /\ ~(userInfoCache # <<>> /\ userInfoLoading # 0)
    /\ userInfoLoading # 0 => requests[userInfoLoading].st = "pending"

\* Calls t and u were in flight together: neither had completed when the
\* other was made.
Overlap(t, u) ==
    /\ t # u
    /\ upd[t].st = "called" /\ upd[u].st = "called"
    /\ t \notin upd[u].prior /\ u \notin upd[t].prior

\* C18 as claimed: of the update() calls in flight together that resolve the
\* same new name, one only calls setDisplayName and persists, and of those
\* that resolve the same new avatar URL, one only fetches, uploads, calls
\* setAvatarUrl and persists.
C18_OneCallPerValue ==
    \A t, u \in Tasks :
        Overlap(t, u) =>
            /\ (dn[t].calls # <<>> /\ dn[u].calls # <<>>) => dn[t].name # dn[u].name
            /\ (av[t].calls # <<>> /\ av[u].calls # <<>>) => av[t].url # av[u].url

\* In this step the avatar path of call t gets the URL to compare with the
\* stored one.
ResolvesAvatar(t) ==
    /\ av[t].pc \in {"idle", "users.info"}
    /\ av'[t].pc \notin {"idle", "users.info"}
    /\ HasToken(upd'[t].room)
    /\ av'[t].got # "thrown"

\* C18 (as amended): a path calls the puppet exactly when the value it
\* resolved is present and differs from the value stored at the moment of
\* the compare, whatever calls for that value other update() calls have in
\* flight; it makes each of its calls once at most, with the value it
\* resolved, and invokes persistence once at most.
C18_OneCallPerUpdate ==
    [][\A t \in Tasks :
         /\ ResolvesName(t) =>
                (dn'[t].calls # <<>>) =
                    (dn'[t].name \notin {Undefined, "", displayName})
         /\ ResolvesAvatar(t) =>
                (av'[t].calls # <<>>) =
                    (av'[t].url \notin {NoUrl, avatarUrl}
                     /\ ShortName(av'[t].url) # <<>>)
         /\ Len(dn'[t].calls) <= 1 /\ Len(dn'[t].put) <= 1
         /\ dn'[t].calls # <<>> =>
                dn'[t].calls = <<<<"setDisplayName", dn'[t].name>>>>
         /\ Len(av'[t].calls) <= 3 /\ Len(av'[t].put) <= 1
         /\ av'[t].calls # <<>> =>
                av'[t].calls = SubSeq(AvatarCalls(av'[t]), 1, Len(av'[t].calls))]_vars

\* C18 witness: two update() calls in flight together resolved the same new
\* name and the same new avatar URL; each called setDisplayName and
\* setAvatarUrl, and each persisted twice.
C18_Witness ==
    \E t, u \in Tasks :
        /\ Overlap(t, u)
        /\ dn[t].name = dn[u].name /\ dn[t].wrote /\ dn[u].wrote
        /\ av[t].url = av[u].url /\ av[t].wrote /\ av[u].wrote

\* The lookup of a coroutine of call t is served by a request made for the
\* subject of t's event: the request joined or made, and on a cache hit the
\* latest request, whose user the cache holds.
ServedForSubject(co, subject) ==
    /\ co.how = "hit" =>
           /\ co.user = requests[Len(requests)].resp.user
           /\ requests[Len(requests)].user = subject
    /\ co.how \in {"join", "fetch"} => requests'[co.p].user = subject

\* C19: every lookup of an update() is served by a users.info request that
\* was made for the subject of that update()'s event, be it a cache hit, a
\* join of the request in flight or a fresh fetch.
C19_ProfileOfSubject ==
    [][\A t \in Tasks :
         Calls(t) =>
             /\ ServedForSubject(dn'[t], upd'[t].message.user_id)
             /\ ServedForSubject(av'[t], upd'[t].message.user_id)]_vars

====
